---- MODULE Spec2Model ----
(***************************************************************************)
(* A model of GrafanaQueryHelper (skills/grafana/references/               *)
(* query_helper.py): time-range parsing, the three retrying dispatch       *)
(* operations, query() and the two result formatters.                      *)
(*                                                                         *)
(* Python strings are sequences of one-character strings, so that          *)
(* strip(), indexing, slicing, startswith(), isdigit() and int() are       *)
(* computed character by character.                                        *)
(***************************************************************************)
EXTENDS Integers, Sequences, FiniteSets, TLC

VARIABLES
    config,     \* self.grafana_url, self.api_token, self.datasources
    op,         \* per call: the public method that was called
    args,       \* per call: its arguments (and the clock value it reads)
    pc,         \* per call: "entry", "try", "sleep", "done" (or "idle")
    attempt,    \* per call: the loop variable of `for attempt in range(...)`
    delay,      \* per call: the argument of the pending time.sleep()
    sent,       \* per call: the HTTP request the call has built
    events,     \* per call: the urlopen() and time.sleep() calls made so far
    seen,       \* per call: the transport outcome of each urlopen() so far
    result,     \* per call: what the call returned or raised
    duration,   \* the argument of a lone _parse_duration_to_seconds call
    parsed,     \* its result
    fmt,        \* the arguments of a lone formatter call
    formatted,  \* the string it returned
    fetched,    \* the datasource records given to build_config
    generated,  \* the configuration it returned
    alerts,     \* the alerts list_alerts returned to get_alert_summary
    summary     \* the summary it returned

vars == <<config, op, args, pc, attempt, delay, sent, events, seen, result,
          duration, parsed, fmt, formatted, fetched, generated, alerts, summary>>

callVars == <<op, args, pc, attempt, delay, sent, events, seen, result>>

-----------------------------------------------------------------------------
(* Bounds *)

\* the largest max_retries a call is given
MaxRetries == 3

\* the longest string given to _parse_duration_to_seconds on its own
MaxLen == 3

\* the longest time_range string given to query() and query_prometheus()
MaxRangeLen == 2

\* the most series (or frames) in a payload given to a formatter
MaxSeries == 2

\* the longest list of datasource records given to build_config
MaxRecords == 2

\* the longest list of alerts
MaxAlerts == 2

-----------------------------------------------------------------------------
(* Python values *)

\* None, as a value no string equals
None == <<"None">>

Digits == {"0", "1", "2"}

Whitespace == {" "}

\* the characters strings are built from: digits, the five unit letters,
\* a letter that is no unit, a blank and a sign
Chars == Digits \cup {"s", "m", "h", "d", "w"} \cup {"x", " ", "-"}

RECURSIVE StringsOver(_, _)
StringsOver(alphabet, n) ==
    IF n = 0 THEN {<<>>}
    ELSE LET shorter == StringsOver(alphabet, n - 1)
         IN  shorter \cup {Append(s, c) : s \in {t \in shorter : Len(t) = n - 1},
                                          c \in alphabet}

\* Truthy taking the empty string as a value that was given
TruthyNotNone(x) == x # None

\* bool(x) of an Optional[str]
Truthy(x) == x # None /\ x # <<>>

DigitValue(c) == CASE c = "0" -> 0 [] c = "1" -> 1 [] c = "2" -> 2

\* str.isdigit(): non-empty and every character a digit
IsDigit(s) == Len(s) > 0 /\ \A i \in 1..Len(s) : s[i] \in Digits

RECURSIVE LStrip(_)
LStrip(s) == IF Len(s) > 0 /\ Head(s) \in Whitespace THEN LStrip(Tail(s)) ELSE s

RECURSIVE RStrip(_)
RStrip(s) ==
    IF Len(s) > 0 /\ s[Len(s)] \in Whitespace
    THEN RStrip(SubSeq(s, 1, Len(s) - 1))
    ELSE s

\* str.strip()
Strip(s) == RStrip(LStrip(s))

\* the value of a digit string read in base ten
RECURSIVE DecimalValue(_)
DecimalValue(s) ==
    IF Len(s) = 0 THEN 0
    ELSE 10 * DecimalValue(SubSeq(s, 1, Len(s) - 1)) + DigitValue(s[Len(s)])

\* what an exception carries: its message, and for a transport failure the
\* status code, reason phrase and response body it was built from
Detail(msg, code, reason, body, text) ==
    [msg |-> msg, code |-> code, reason |-> reason, body |-> body, text |-> text]

NoDetail == Detail("", 0, "", "", <<>>)

\* a value returned / an exception raised by a helper
Returned(v) == [ok |-> TRUE, value |-> v, exc |-> "", detail |-> NoDetail]

Raised(e, d) == [ok |-> FALSE, value |-> 0, exc |-> e, detail |-> d]

\* int(str): blanks around, an optional sign, then digits; ValueError otherwise
PyInt(s) ==
    LET t        == Strip(s)
        negative == Len(t) > 0 /\ Head(t) = "-"
        body     == IF negative THEN Tail(t) ELSE t
    IN  IF IsDigit(body)
        THEN Returned(IF negative THEN 0 - DecimalValue(body) ELSE DecimalValue(body))
        ELSE Raised("ValueError", Detail("invalid literal for int()", 0, "", "", s))

\* str(int)
RECURSIVE NatStr(_)
NatStr(n) ==
    LET last == CASE n % 10 = 0 -> "0" [] n % 10 = 1 -> "1" [] n % 10 = 2 -> "2"
                  [] n % 10 = 3 -> "3" [] n % 10 = 4 -> "4" [] n % 10 = 5 -> "5"
                  [] n % 10 = 6 -> "6" [] n % 10 = 7 -> "7" [] n % 10 = 8 -> "8"
                  [] n % 10 = 9 -> "9"
    IN  IF n < 10 THEN <<last>> ELSE Append(NatStr(n \div 10), last)

PyStr(n) == IF n < 0 THEN <<"-">> \o NatStr(0 - n) ELSE NatStr(n)

-----------------------------------------------------------------------------
(* Time parsing *)

UnitLetters == {"s", "m", "h", "d", "w"}

\* UnitSeconds with a week of six days
UnitSecondsShortWeek(u) ==
    CASE u = "s" -> 1 [] u = "m" -> 60 [] u = "h" -> 3600
      [] u = "d" -> 86400 [] u = "w" -> 518400

\* the `units` table of _parse_duration_to_seconds
UnitSeconds(u) ==
    CASE u = "s" -> 1 [] u = "m" -> 60 [] u = "h" -> 3600
      [] u = "d" -> 86400 [] u = "w" -> 604800

Now == <<"n", "o", "w">>

StartsWith(s, prefix) ==
    Len(s) >= Len(prefix) /\ SubSeq(s, 1, Len(prefix)) = prefix

\* ParseDurationToSeconds taking a string that begins with "now" as the
\* empty window that ends now
ParseDurationToSecondsNow(d) ==
    LET t == Strip(d)
    IN  IF StartsWith(t, Now)
        THEN Returned(0)
        ELSE IF Len(t) = 0
        THEN Raised("IndexError", Detail("string index out of range", 0, "", "", d))
        ELSE IF t[Len(t)] \in UnitLetters
        THEN LET value == PyInt(SubSeq(t, 1, Len(t) - 1))
             IN  IF value.ok
                 THEN Returned(value.value * UnitSeconds(t[Len(t)]))
                 ELSE value
        ELSE PyInt(t)

\* _parse_duration_to_seconds(duration)
ParseDurationToSeconds(d) ==
    LET t == Strip(d)
    IN  IF Len(t) = 0
        THEN \* duration[-1] of an empty string
             Raised("IndexError", Detail("string index out of range", 0, "", "", d))
        ELSE IF t[Len(t)] \in UnitLetters
        THEN LET value == PyInt(SubSeq(t, 1, Len(t) - 1))
             IN  IF value.ok
                 THEN Returned(value.value * UnitSeconds(t[Len(t)]))
                 ELSE value
        ELSE PyInt(t)

\* _parse_time_range(time_range): the (from, to) pair of the gateway request
ParseTimeRange(time_range) ==
    IF StartsWith(time_range, Now)
    THEN Returned(<<Now \o <<"-">> \o SubSeq(time_range, 4, Len(time_range)), Now>>)
    ELSE LET t == Strip(time_range)
         IN  IF Len(t) = 0
             THEN Raised("IndexError",
                         Detail("string index out of range", 0, "", "", time_range))
             ELSE IF t[Len(t)] \in UnitLetters
             THEN Returned(<<Now \o <<"-">> \o t, Now>>)
             ELSE Returned(<<Now \o <<"-", "1", "h">>, Now>>)

\* ParseAbsoluteTime reading the digits as milliseconds
ParseAbsoluteTimeMillis(time_str) ==
    IF IsDigit(time_str)
    THEN Returned(PyInt(time_str).value * 1000)
    ELSE Raised("ValueError", Detail("Cannot parse time string", 0, "", "", time_str))

\* _parse_absolute_time(time_str).  A string that is not all digits goes to
\* datetime.fromisoformat / datetime.strptime; no string over Chars is a
\* date and time (none holds a ":"), so for these both raise ValueError.
ParseAbsoluteTime(time_str) ==
    IF IsDigit(time_str)
    THEN PyInt(time_str)
    ELSE Raised("ValueError", Detail("Cannot parse time string", 0, "", "", time_str))

-----------------------------------------------------------------------------
(* JSON values *)

\* A parsed JSON value: t is "null", "num", "str", "list" or "dict"; n is the
\* number, s the string, items the elements of a list or the entries of a
\* dict in their order; k is the key under which the value sits in a dict.
JValue(t, n, s, items) == [t |-> t, k |-> <<>>, n |-> n, s |-> s, items |-> items]

JNull == JValue("null", 0, <<>>, <<>>)

JNum(n) == JValue("num", n, <<>>, <<>>)

JStr(s) == JValue("str", 0, s, <<>>)

JList(items) == JValue("list", 0, <<>>, items)

JDict(entries) == JValue("dict", 0, <<>>, entries)

\* the entry key: value of a dict
Entry(key, value) == [value EXCEPT !.k = key]

\* key in d
Has(d, key) == \E i \in 1..Len(d.items) : d.items[i].k = key

\* d[key], for a key that d has
Item(d, key) ==
    LET i == CHOOSE j \in 1..Len(d.items) : d.items[j].k = key
    IN  [d.items[i] EXCEPT !.k = <<>>]

\* d.get(key, default)
Get(d, key, default) == IF Has(d, key) THEN Item(d, key) ELSE default

\* not v
Falsy(v) ==
    CASE v.t = "null" -> TRUE
      [] v.t = "num"  -> v.n = 0
      [] v.t = "str"  -> v.s = <<>>
      [] OTHER        -> v.items = <<>>

\* seq[:n]
Take(seq, n) ==
    IF n >= 0
    THEN SubSeq(seq, 1, IF n < Len(seq) THEN n ELSE Len(seq))
    ELSE SubSeq(seq, 1, Len(seq) + n)

\* seq[-n:]
LastN(seq, n) ==
    IF n > 0
    THEN SubSeq(seq, (IF n < Len(seq) THEN Len(seq) - n ELSE 0) + 1, Len(seq))
    ELSE SubSeq(seq, 1 - n, Len(seq))

\* sep.join(parts)
RECURSIVE Join(_, _)
Join(sep, parts) ==
    IF Len(parts) = 0 THEN <<>>
    ELSE IF Len(parts) = 1 THEN parts[1]
    ELSE parts[1] \o sep \o Join(sep, Tail(parts))

\* the concatenation of a list of lists
RECURSIVE Concat(_)
Concat(lists) == IF Len(lists) = 0 THEN <<>> ELSE lists[1] \o Concat(Tail(lists))

\* repr(v), which is str(v) of a dict or a list
RECURSIVE Repr(_)
Repr(v) ==
    CASE v.t = "null" -> <<"N", "o", "n", "e">>
      [] v.t = "num"  -> PyStr(v.n)
      [] v.t = "str"  -> <<"'">> \o v.s \o <<"'">>
      [] v.t = "list" ->
            <<"[">> \o Join(<<",", " ">>, [i \in 1..Len(v.items) |-> Repr(v.items[i])]) \o <<"]">>
      [] v.t = "dict" ->
            <<"{">> \o Join(<<",", " ">>, [i \in 1..Len(v.items) |->
                                  <<"'">> \o v.items[i].k \o <<"'", ":", " ">> \o Repr(v.items[i])])
                 \o <<"}">>

\* str(v), the text an f-string puts for {v}
Str(v) == IF v.t = "str" THEN v.s ELSE Repr(v)

\* f"{v:.2f}" for a number, str(v) for any other value
Fixed2(v) == IF v.t = "num" THEN PyStr(v.n) \o <<".", "0", "0">> ELSE Str(v)

\* the indentation of json.dumps(indent=2) at a nesting level
RECURSIVE Indent(_)
Indent(level) == IF level = 0 THEN <<>> ELSE <<" ", " ">> \o Indent(level - 1)

\* json.dumps(v, indent=2), from nesting level `level`
RECURSIVE Dumps(_, _)
Dumps(v, level) ==
    CASE v.t = "null" -> <<"n", "u", "l", "l">>
      [] v.t = "num"  -> PyStr(v.n)
      [] v.t = "str"  -> <<"\"">> \o v.s \o <<"\"">>
      [] v.t = "list" ->
            IF v.items = <<>> THEN <<"[", "]">>
            ELSE <<"[", "\n">>
                 \o Join(<<",", "\n">>, [i \in 1..Len(v.items) |->
                        Indent(level + 1) \o Dumps(v.items[i], level + 1)])
                 \o <<"\n">> \o Indent(level) \o <<"]">>
      [] v.t = "dict" ->
            IF v.items = <<>> THEN <<"{", "}">>
            ELSE <<"{", "\n">>
                 \o Join(<<",", "\n">>, [i \in 1..Len(v.items) |->
                        Indent(level + 1) \o <<"\"">> \o v.items[i].k \o <<"\"", ":", " ">>
                           \o Dumps(v.items[i], level + 1)])
                 \o <<"\n">> \o Indent(level) \o <<"}">>

-----------------------------------------------------------------------------
(* Timestamps as text *)

\* the offset of local time from UTC, in seconds
UtcOffset == 0

\* a number in at least `width` digits, zero-padded
RECURSIVE Padded(_, _)
Padded(n, width) ==
    LET digits == NatStr(n)
    IN  IF Len(digits) >= width THEN digits ELSE <<"0">> \o Padded(n, width - 1)

\* strftime("%H:%M:%S") of datetime.fromtimestamp(seconds)
ClockText(seconds) ==
    LET local == (seconds + UtcOffset) % 86400
    IN  Padded(local \div 3600, 2) \o <<":">> \o Padded((local % 3600) \div 60, 2)
           \o <<":">> \o Padded(local % 60, 2)

\* strftime("%Y-%m-%d") of datetime.fromtimestamp(seconds): the civil date
\* of the day number counted from 1970-01-01
DateText(seconds) ==
    LET z     == ((seconds + UtcOffset) \div 86400) + 719468
        era   == z \div 146097
        doe   == z - era * 146097
        yoe   == (doe - doe \div 1460 + doe \div 36524 - doe \div 146096) \div 365
        doy   == doe - (365 * yoe + yoe \div 4 - yoe \div 100)
        mp    == (5 * doy + 2) \div 153
        day   == doy - (153 * mp + 2) \div 5 + 1
        month == IF mp < 10 THEN mp + 3 ELSE mp - 9
        year  == yoe + era * 400 + (IF month <= 2 THEN 1 ELSE 0)
    IN  Padded(year, 4) \o <<"-">> \o Padded(month, 2) \o <<"-">> \o Padded(day, 2)

\* strftime("%Y-%m-%d %H:%M:%S") of datetime.fromtimestamp(millis / 1000)
DateTimeText(millis) == DateText(millis \div 1000) \o <<" ">> \o ClockText(millis \div 1000)

-----------------------------------------------------------------------------
(* format_prometheus_result and format_series_data *)

NoDataText == <<"N", "o", " ", "d", "a", "t", "a">>

NoDataPointsText == <<"N", "o", " ", "d", "a", "t", "a", " ", "p", "o", "i", "n", "t", "s">>

UnknownFormatText == <<"U", "n", "k", "n", "o", "w", "n", " ", "r", "e", "s", "p", "o", "n", "s", "e", " ", "f", "o", "r", "m", "a", "t">>

SeriesText == <<"S", "e", "r", "i", "e", "s">>

\* the two header lines of the native table
NativeHeader == <<<<"|", " ", "T", "i", "m", "e", " ", "|", " ", "M", "e", "t", "r", "i", "c", " ", "|", " ", "V", "a", "l", "u", "e", " ", "|">>, <<"|", "-", "-", "-", "-", "-", "-", "|", "-", "-", "-", "-", "-", "-", "-", "-", "|", "-", "-", "-", "-", "-", "-", "-", "|">>>>

\* the two header lines of the frames and series tables
SeriesHeader == <<<<"|", " ", "T", "i", "m", "e", " ", "|", " ", "S", "e", "r", "i", "e", "s", " ", "|", " ", "V", "a", "l", "u", "e", " ", "|">>, <<"|", "-", "-", "-", "-", "-", "-", "|", "-", "-", "-", "-", "-", "-", "-", "-", "|", "-", "-", "-", "-", "-", "-", "-", "|">>>>

\* f"... and {n} more series"
MoreSeriesLine(n) == <<".", ".", ".", " ", "a", "n", "d", " ">> \o PyStr(n) \o <<" ", "m", "o", "r", "e", " ", "s", "e", "r", "i", "e", "s">>

\* f"| ... | ({n} more series) | ... |"
MoreSeriesRow(n) == <<"|", " ", ".", ".", ".", " ", "|", " ", "(">> \o PyStr(n) \o <<" ", "m", "o", "r", "e", " ", "s", "e", "r", "i", "e", "s", ")", " ", "|", " ", ".", ".", ".", " ", "|">>

\* f"| {time} | {name} | {value} |"
TableRow(time, name, value) ==
    <<"|", " ">> \o time \o <<" ", "|", " ">> \o name \o <<" ", "|", " ">> \o value \o <<" ", "|">>

\* the KeyError of result["results"]["A"], whose str() is the repr of the key
KeyErrorA == Raised("KeyError", Detail("", 0, "", "", <<"'", "A", "'">>))

\* the IndexError of vals[i]
ListIndexError == Raised("IndexError", Detail("", 0, "", "", <<"l", "i", "s", "t", " ", "i", "n", "d", "e", "x", " ", "o", "u", "t", " ", "o", "f", " ", "r", "a", "n", "g", "e">>))

\* the lines of the simple format for frames
FramesSimpleLines(frames) ==
    Concat([f \in 1..Len(frames) |->
        LET name   == Get(Get(frames[f], <<"s", "c", "h", "e", "m", "a">>, JDict(<<>>)), <<"n", "a", "m", "e">>, JStr(SeriesText))
            values == Get(Get(frames[f], <<"d", "a", "t", "a">>, JDict(<<>>)), <<"v", "a", "l", "u", "e", "s">>, JList(<<>>))
        IN  IF Len(values.items) >= 2 /\ ~Falsy(values.items[2])
            THEN <<Str(name) \o <<":", " ">> \o Str(values.items[2].items[Len(values.items[2].items)])>>
            ELSE <<>>])

\* the rows of one frame in the table format: one for each of the last 10
\* indices of the time column, read at the same index of the value column
FrameRows(frame) ==
    LET name   == Get(Get(frame, <<"s", "c", "h", "e", "m", "a">>, JDict(<<>>)), <<"n", "a", "m", "e">>, JStr(SeriesText))
        values == Get(Get(frame, <<"d", "a", "t", "a">>, JDict(<<>>)), <<"v", "a", "l", "u", "e", "s">>, JList(<<>>))
    IN  IF Len(values.items) >= 2
        THEN LET times == values.items[1].items
                 vals  == values.items[2].items
                 first == IF Len(times) - 10 > 0 THEN Len(times) - 10 ELSE 0
             IN  IF \E i \in first..(Len(times) - 1) : i >= Len(vals)
                 THEN ListIndexError
                 ELSE Returned([j \in 1..(Len(times) - first) |->
                         TableRow(DateTimeText(times[first + j].n), Str(name),
                                  Fixed2(vals[first + j]))])
        ELSE Returned(<<>>)

\* the lines of the table format for frames, or the IndexError of a frame
FramesTableLines(frames) ==
    IF \E f \in 1..Len(frames) : ~FrameRows(frames[f]).ok
    THEN ListIndexError
    ELSE Returned(SeriesHeader \o Concat([f \in 1..Len(frames) |-> FrameRows(frames[f]).value]))

\* the lines of the simple format for a series list
SeriesSimpleLines(series_list) ==
    LET shown == Take(series_list, 20)
    IN  Concat([s \in 1..Len(shown) |->
            LET name   == Get(shown[s], <<"n", "a", "m", "e">>, JStr(SeriesText))
                points == Get(shown[s], <<"p", "o", "i", "n", "t", "s">>, JList(<<>>))
            IN  IF ~Falsy(points)
                THEN LET latest_point == points.items[Len(points.items)]
                         latest_value ==
                             IF ~Falsy(latest_point) THEN Str(latest_point.items[1])
                             ELSE <<"N", "/", "A">>
                     IN  <<Str(name) \o <<":", " ">> \o latest_value>>
                ELSE <<>>])
        \o (IF Len(series_list) > 20
            THEN <<MoreSeriesLine(Len(series_list) - 20)>> ELSE <<>>)

\* the lines of the table format for a series list
SeriesTableLines(series_list) ==
    LET shown == Take(series_list, 10)
    IN  SeriesHeader
        \o Concat([s \in 1..Len(shown) |->
              LET name   == Get(shown[s], <<"n", "a", "m", "e">>, JStr(SeriesText))
                  points == LastN(Get(shown[s], <<"p", "o", "i", "n", "t", "s">>, JList(<<>>)).items, 5)
              IN  Concat([p \in 1..Len(points) |->
                     IF Len(points[p].items) >= 2
                     THEN <<TableRow(DateTimeText(points[p].items[2].n),
                                     Take(Str(name), 40) \o <<".", ".", ".">>,
                                     Fixed2(points[p].items[1]))>>
                     ELSE <<>>])])
        \o (IF Len(series_list) > 10
            THEN <<MoreSeriesRow(Len(series_list) - 10)>> ELSE <<>>)

\* the body of the try statement of format_series_data
SeriesBody(raw, format_type) ==
    IF ~Has(Item(raw, <<"r", "e", "s", "u", "l", "t", "s">>), <<"A">>)
    THEN KeyErrorA
    ELSE LET result_data == Item(Item(raw, <<"r", "e", "s", "u", "l", "t", "s">>), <<"A">>)
         IN  IF Has(result_data, <<"f", "r", "a", "m", "e", "s">>)
             THEN LET frames == Item(result_data, <<"f", "r", "a", "m", "e", "s">>)
                  IN  IF Falsy(frames) THEN Returned(NoDataPointsText)
                      ELSE IF format_type = "simple"
                      THEN Returned(Join(<<"\n">>, FramesSimpleLines(frames.items)))
                      ELSE LET lines == FramesTableLines(frames.items)
                           IN  IF lines.ok THEN Returned(Join(<<"\n">>, lines.value))
                               ELSE lines
             ELSE IF Has(result_data, <<"s", "e", "r", "i", "e", "s">>)
             THEN LET series_list == Item(result_data, <<"s", "e", "r", "i", "e", "s">>)
                  IN  IF Falsy(series_list) THEN Returned(NoDataPointsText)
                      ELSE IF format_type = "simple"
                      THEN Returned(Join(<<"\n">>, SeriesSimpleLines(series_list.items)))
                      ELSE Returned(Join(<<"\n">>, SeriesTableLines(series_list.items)))
             ELSE Returned(UnknownFormatText)

\* format_series_data(result, format_type)
FormatSeriesData(raw, format_type) ==
    IF Falsy(raw) \/ ~Has(raw, <<"r", "e", "s", "u", "l", "t", "s">>)
    THEN NoDataText
    ELSE IF format_type = "json"
    THEN Dumps(raw, 0)
    ELSE LET body == SeriesBody(raw, format_type)
         IN  IF body.ok THEN body.value
             ELSE <<"E", "r", "r", "o", "r", " ", "f", "o", "r", "m", "a", "t", "t", "i", "n", "g", " ", "d", "a", "t", "a", ":", " ">> \o body.detail.text \o <<"\n">>
                     \o Dumps(raw, 0)

\* the lines of the simple format for native results
NativeSimpleLines(results, max_series) ==
    LET shown == Take(results, max_series)
    IN  Concat([s \in 1..Len(shown) |->
            LET metric   == Get(shown[s], <<"m", "e", "t", "r", "i", "c">>, JDict(<<>>))
                values   == Get(shown[s], <<"v", "a", "l", "u", "e", "s">>, JList(<<>>))
                instance ==
                    IF ~Falsy(Get(metric, <<"i", "n", "s", "t", "a", "n", "c", "e">>, JNull))
                    THEN Get(metric, <<"i", "n", "s", "t", "a", "n", "c", "e">>, JNull)
                    ELSE IF ~Falsy(Get(metric, <<"j", "o", "b">>, JNull))
                    THEN Get(metric, <<"j", "o", "b">>, JNull)
                    ELSE JStr(SeriesText)
            IN  IF ~Falsy(values)
                THEN <<Str(instance) \o <<":", " ">>
                          \o Str(values.items[Len(values.items)].items[2])>>
                ELSE <<>>])
        \o (IF Len(results) > max_series
            THEN <<MoreSeriesLine(Len(results) - max_series)>> ELSE <<>>)

\* the lines of the table format for native results
NativeTableLines(results, max_series, max_points) ==
    LET shown == Take(results, max_series)
    IN  NativeHeader
        \o Concat([s \in 1..Len(shown) |->
              LET metric      == Get(shown[s], <<"m", "e", "t", "r", "i", "c">>, JDict(<<>>))
                  values      == Get(shown[s], <<"v", "a", "l", "u", "e", "s">>, JList(<<>>))
                  instance    == Get(metric, <<"i", "n", "s", "t", "a", "n", "c", "e">>, JStr(<<>>))
                  job         == Get(metric, <<"j", "o", "b">>, JStr(<<>>))
                  metric_name == IF ~Falsy(job) /\ ~Falsy(instance)
                                 THEN Str(job) \o <<"/">> \o Str(instance)
                                 ELSE Str(metric)
                  points      == LastN(values.items, max_points)
              IN  [p \in 1..Len(points) |->
                     TableRow(ClockText(points[p].items[1].n), Take(metric_name, 30),
                              Str(points[p].items[2]))]])
        \o (IF Len(results) > max_series
            THEN <<MoreSeriesRow(Len(results) - max_series)>> ELSE <<>>)

\* format_prometheus_result(result, format_type, max_series, max_points)
FormatPrometheusResult(raw, format_type, max_series, max_points) ==
    IF Falsy(raw)
    THEN NoDataText
    ELSE IF Get(raw, <<"s", "t", "a", "t", "u", "s">>, JNull) = JStr(<<"s", "u", "c", "c", "e", "s", "s">>)
    THEN LET data    == Get(raw, <<"d", "a", "t", "a">>, JDict(<<>>))
             results == Get(data, <<"r", "e", "s", "u", "l", "t">>, JList(<<>>))
         IN  IF Falsy(results) THEN NoDataPointsText
             ELSE IF format_type = "json" THEN Dumps(raw, 0)
             ELSE IF format_type = "simple"
             THEN Join(<<"\n">>, NativeSimpleLines(results.items, max_series))
             ELSE Join(<<"\n">>, NativeTableLines(results.items, max_series, max_points))
    ELSE FormatSeriesData(raw, format_type)

-----------------------------------------------------------------------------
(* Configuration *)

Some(v) == [some |-> TRUE, v |-> v]

Nothing == [some |-> FALSE, v |-> 0]

\* the datasources mapping of the config file, as generate_datasources.py
\* writes it: name -> {uid, id, is_default}
LoadedDatasources ==
    [n \in {"Prometheus 1", "Loki"} |->
        IF n = "Prometheus 1"
        THEN [uid |-> "prom-uid", id |-> Some(7), is_default |-> TRUE]
        ELSE [uid |-> "loki-uid", id |-> Nothing, is_default |-> FALSE]]

\* __init__: the fields read from the config file
LoadedConfig ==
    [grafana_url |-> "https://grafana.example", api_token |-> "token",
     datasources |-> LoadedDatasources]

\* self.datasources.keys(): the names in the order of the config file
DatasourceKeys == <<"Prometheus 1", "Loki">>

\* get_datasource_uid(datasource_name); the message names the datasource
\* asked for (reason) and joins the available names (text)
GetDatasourceUid(name) ==
    IF name \notin DOMAIN config.datasources
    THEN Raised("KeyError", Detail("Datasource not found. Available datasources", 0,
                                   name, "", DatasourceKeys))
    ELSE Returned(config.datasources[name].uid)

\* self.datasources[datasource_name].get("id")
GetDatasourceId(name) ==
    IF name \notin DOMAIN config.datasources
    THEN Raised("KeyError", Detail("", 0, name, "", <<>>))
    ELSE Returned(config.datasources[name].id)

-----------------------------------------------------------------------------
(* Calls *)

Calls == {"c1", "c2"}

\* what urlopen() can do: answer 2xx, raise HTTPError (with or without a
\* readable body, e.fp), raise URLError
Success == [kind |-> "ok", code |-> 200, reason |-> "OK", fp |-> TRUE, body |-> "json"]

NotFound ==
    [kind |-> "http", code |-> 404, reason |-> "Not Found", fp |-> TRUE,
     body |-> "not found"]

Unavailable ==
    [kind |-> "http", code |-> 503, reason |-> "Service Unavailable", fp |-> FALSE,
     body |-> ""]

Refused ==
    [kind |-> "url", code |-> 0, reason |-> "Connection refused", fp |-> FALSE,
     body |-> ""]

Failures == {NotFound, Unavailable, Refused}

Outcomes == {Success} \cup Failures

\* what a call has not yet / has returned / has raised
Pending == [kind |-> "pending", value |-> "", exc |-> "", detail |-> NoDetail]

Return(v) == [kind |-> "return", value |-> v, exc |-> "", detail |-> NoDetail]

Raise(e, d) == [kind |-> "raise", value |-> "", exc |-> e, detail |-> d]

\* the value of a function that falls off its end
ReturnNone == Return("None")

\* json.loads(response.read())
ParsedResponse(o) == o.body

RequestEvent == [type |-> "request", secs |-> 0]

SleepEvent(secs) == [type |-> "sleep", secs |-> secs]

NoRequest == [method |-> "none"]

\* range(max_retries) holds `i`
InRange(i, max_retries) == 0 <= i /\ i < max_retries

\* the call ends with result `r`
Finish(c, r) ==
    /\ pc' = [pc EXCEPT ![c] = "done"]
    /\ result' = [result EXCEPT ![c] = r]

\* the loop of a dispatch starts: its first iteration, or none at all
EnterLoop(c, request) ==
    /\ sent' = [sent EXCEPT ![c] = request]
    /\ IF InRange(0, args[c].max_retries)
       THEN /\ pc' = [pc EXCEPT ![c] = "try"]
            /\ attempt' = [attempt EXCEPT ![c] = 0]
            /\ UNCHANGED result
       ELSE /\ Finish(c, ReturnNone)
            /\ UNCHANGED attempt

\* urlopen() was called and did `o`
Requested(c, o) ==
    /\ events' = [events EXCEPT ![c] = Append(@, RequestEvent)]
    /\ seen' = [seen EXCEPT ![c] = Append(@, o)]

\* an except clause ends in time.sleep(secs)
GoSleep(c, secs) ==
    /\ pc' = [pc EXCEPT ![c] = "sleep"]
    /\ delay' = [delay EXCEPT ![c] = secs]
    /\ UNCHANGED result

\* the exception of `raise Exception(f"Query failed: HTTP ...")`
QueryFailed(e) ==
    Raise("Exception",
          Detail("Query failed: HTTP", e.code, e.reason, IF e.fp THEN e.body ELSE "",
                 <<>>))

\* the exception of `raise Exception(f"Connection failed: ...")`
ConnectionFailed(e) ==
    Raise("Exception", Detail("Connection failed", 0, e.reason, "", <<>>))

-----------------------------------------------------------------------------
(* query_prometheus_direct *)

\* DirectRequest posted to the gateway's query endpoint
DirectRequestViaGateway(datasource_id, query, start, end, step) ==
    [method |-> "POST", path |-> "/api/ds/query",
     datasource_id |-> datasource_id, query |-> query,
     start |-> start, end |-> end, step |-> step]

\* the GET request on /api/datasources/proxy/<id>/api/v1/query_range
DirectRequest(datasource_id, query, start, end, step) ==
    [method |-> "GET", path |-> "/api/datasources/proxy/{id}/api/v1/query_range",
     datasource_id |-> datasource_id, query |-> query,
     start |-> start, end |-> end, step |-> step]

\* query_prometheus_direct up to its loop
DirectBegin(c, datasource_name, query, start_timestamp, end_timestamp, step) ==
    LET datasource_id == GetDatasourceId(datasource_name)
    IN  IF ~datasource_id.ok
        THEN /\ Finish(c, Raise(datasource_id.exc, datasource_id.detail))
             /\ UNCHANGED <<sent, attempt>>
        ELSE EnterLoop(c, DirectRequest(datasource_id.value, query,
                                        start_timestamp, end_timestamp, step))

\* a call of query_prometheus_direct
QueryPrometheusDirect(c) ==
    /\ pc[c] = "entry"
    /\ op[c] = "query_prometheus_direct"
    /\ DirectBegin(c, args[c].datasource_name, args[c].query,
                   args[c].start_timestamp, args[c].end_timestamp, args[c].step)
    /\ UNCHANGED <<config, op, args, delay, events, seen, duration, parsed, fmt, formatted, fetched, generated, alerts, summary>>

\* DirectOnHTTPError with every backoff sleep one second long
DirectOnHTTPErrorFlat(c, e) ==
    IF attempt[c] = args[c].max_retries - 1
    THEN Finish(c, QueryFailed(e)) /\ UNCHANGED delay
    ELSE GoSleep(c, 1)

\* except urllib.error.HTTPError
DirectOnHTTPError(c, e) ==
    IF attempt[c] = args[c].max_retries - 1
    THEN Finish(c, QueryFailed(e)) /\ UNCHANGED delay
    ELSE GoSleep(c, 1 * (attempt[c] + 1))

\* DirectOnURLError giving up at once, as if a refused connection were final
DirectOnURLErrorFinal(c, e) ==
    Finish(c, ConnectionFailed(e)) /\ UNCHANGED delay

\* except urllib.error.URLError
DirectOnURLError(c, e) ==
    IF attempt[c] = args[c].max_retries - 1
    THEN Finish(c, ConnectionFailed(e)) /\ UNCHANGED delay
    ELSE GoSleep(c, 1 * (attempt[c] + 1))

\* one iteration of the loop, up to its return, raise or sleep
DirectAttempt(c) ==
    /\ pc[c] = "try"
    /\ op[c] \in {"query", "query_prometheus_direct"}
    /\ \E o \in Outcomes :
          /\ Requested(c, o)
          /\ CASE o.kind = "ok"   -> Finish(c, Return(ParsedResponse(o))) /\ UNCHANGED delay
               [] o.kind = "http" -> DirectOnHTTPError(c, o)
               [] o.kind = "url"  -> DirectOnURLError(c, o)
    /\ UNCHANGED <<config, op, args, attempt, sent, duration, parsed, fmt, formatted, fetched, generated, alerts, summary>>

-----------------------------------------------------------------------------
(* query_prometheus_absolute and query_prometheus *)

\* DatasourceObj carrying the id field also when the datasource has none
DatasourceObjWithId(uid, datasource_id) ==
    [uid |-> uid, type |-> "prometheus", id |-> datasource_id.v]

\* datasource_obj: uid and type, and id when the datasource has one
DatasourceObj(uid, datasource_id) ==
    IF datasource_id.some
    THEN [uid |-> uid, type |-> "prometheus", id |-> datasource_id.v]
    ELSE [uid |-> uid, type |-> "prometheus"]

\* the POST request on /api/ds/query with its payload
GatewayRequest(uid, datasource_id, query, interval, legend_format, from, to) ==
    [method |-> "POST", path |-> "/api/ds/query",
     queries |-> <<[refId |-> "A", datasource |-> DatasourceObj(uid, datasource_id),
                    datasourceId |-> datasource_id, expr |-> query,
                    interval |-> interval, legendFormat |-> legend_format,
                    range |-> TRUE]>>,
     from |-> from, to |-> to]

\* QueryPrometheusAbsolute writing the id it put in datasource_obj back into
\* the datasource mapping
QueryPrometheusAbsoluteStoring(c) ==
    /\ pc[c] = "entry"
    /\ op[c] = "query_prometheus_absolute"
    /\ LET datasource_uid == GetDatasourceUid(args[c].datasource_name)
           datasource_id  == GetDatasourceId(args[c].datasource_name)
       IN  IF ~datasource_uid.ok
           THEN /\ Finish(c, Raise(datasource_uid.exc, datasource_uid.detail))
                /\ UNCHANGED <<sent, attempt, config>>
           ELSE /\ EnterLoop(c, GatewayRequest(datasource_uid.value, datasource_id.value,
                                               args[c].query, args[c].interval,
                                               args[c].legend_format,
                                               PyStr(args[c].from_timestamp),
                                               PyStr(args[c].to_timestamp)))
                /\ config' = [config EXCEPT
                                 !.datasources[args[c].datasource_name].id = Some(0)]
    /\ UNCHANGED <<op, args, delay, events, seen, duration, parsed, fmt, formatted, fetched, generated, alerts, summary>>

\* a call of query_prometheus_absolute, up to its loop
QueryPrometheusAbsolute(c) ==
    /\ pc[c] = "entry"
    /\ op[c] = "query_prometheus_absolute"
    /\ LET datasource_uid == GetDatasourceUid(args[c].datasource_name)
           datasource_id  == GetDatasourceId(args[c].datasource_name)
       IN  IF ~datasource_uid.ok
           THEN /\ Finish(c, Raise(datasource_uid.exc, datasource_uid.detail))
                /\ UNCHANGED <<sent, attempt>>
           ELSE EnterLoop(c, GatewayRequest(datasource_uid.value, datasource_id.value,
                                            args[c].query, args[c].interval,
                                            args[c].legend_format,
                                            PyStr(args[c].from_timestamp),
                                            PyStr(args[c].to_timestamp)))
    /\ UNCHANGED <<config, op, args, delay, events, seen, duration, parsed, fmt, formatted, fetched, generated, alerts, summary>>

\* AbsoluteOnHTTPError sleeping `attempt` seconds, not `attempt + 1`
AbsoluteOnHTTPErrorShort(c, e) ==
    IF attempt[c] = args[c].max_retries - 1
    THEN Finish(c, QueryFailed(e)) /\ UNCHANGED delay
    ELSE GoSleep(c, 1 * attempt[c])

\* except urllib.error.HTTPError
AbsoluteOnHTTPError(c, e) ==
    IF attempt[c] = args[c].max_retries - 1
    THEN Finish(c, QueryFailed(e)) /\ UNCHANGED delay
    ELSE GoSleep(c, 1 * (attempt[c] + 1))

\* except urllib.error.URLError
AbsoluteOnURLError(c, e) ==
    IF attempt[c] = args[c].max_retries - 1
    THEN Finish(c, ConnectionFailed(e)) /\ UNCHANGED delay
    ELSE GoSleep(c, 1 * (attempt[c] + 1))

\* one iteration of the loop, up to its return, raise or sleep
AbsoluteAttempt(c) ==
    /\ pc[c] = "try"
    /\ op[c] = "query_prometheus_absolute"
    /\ \E o \in Outcomes :
          /\ Requested(c, o)
          /\ CASE o.kind = "ok"   -> Finish(c, Return(ParsedResponse(o))) /\ UNCHANGED delay
               [] o.kind = "http" -> AbsoluteOnHTTPError(c, o)
               [] o.kind = "url"  -> AbsoluteOnURLError(c, o)
    /\ UNCHANGED <<config, op, args, attempt, sent, duration, parsed, fmt, formatted, fetched, generated, alerts, summary>>

\* a call of query_prometheus, up to its loop
QueryPrometheus(c) ==
    /\ pc[c] = "entry"
    /\ op[c] = "query_prometheus"
    /\ LET datasource_uid == GetDatasourceUid(args[c].datasource_name)
           datasource_id  == GetDatasourceId(args[c].datasource_name)
           times          == ParseTimeRange(args[c].time_range)
       IN  IF ~datasource_uid.ok
           THEN /\ Finish(c, Raise(datasource_uid.exc, datasource_uid.detail))
                /\ UNCHANGED <<sent, attempt>>
           ELSE IF ~times.ok
           THEN /\ Finish(c, Raise(times.exc, times.detail))
                /\ UNCHANGED <<sent, attempt>>
           ELSE EnterLoop(c, GatewayRequest(datasource_uid.value, datasource_id.value,
                                            args[c].query, args[c].interval,
                                            args[c].legend_format,
                                            times.value[1], times.value[2]))
    /\ UNCHANGED <<config, op, args, delay, events, seen, duration, parsed, fmt, formatted, fetched, generated, alerts, summary>>

\* GatewayOnHTTPError with the back-off doubled
GatewayOnHTTPErrorDouble(c, e) ==
    IF attempt[c] = args[c].max_retries - 1
    THEN Finish(c, QueryFailed(e)) /\ UNCHANGED delay
    ELSE GoSleep(c, 2 * (attempt[c] + 1))

\* except urllib.error.HTTPError
GatewayOnHTTPError(c, e) ==
    IF attempt[c] = args[c].max_retries - 1
    THEN Finish(c, QueryFailed(e)) /\ UNCHANGED delay
    ELSE GoSleep(c, 1 * (attempt[c] + 1))

\* GatewayOnURLError with the last attempt taken to be number max_retries
GatewayOnURLErrorLate(c, e) ==
    IF attempt[c] = args[c].max_retries
    THEN Finish(c, ConnectionFailed(e)) /\ UNCHANGED delay
    ELSE GoSleep(c, 1 * (attempt[c] + 1))

\* except urllib.error.URLError
GatewayOnURLError(c, e) ==
    IF attempt[c] = args[c].max_retries - 1
    THEN Finish(c, ConnectionFailed(e)) /\ UNCHANGED delay
    ELSE GoSleep(c, 1 * (attempt[c] + 1))

\* one iteration of the loop, up to its return, raise or sleep
GatewayAttempt(c) ==
    /\ pc[c] = "try"
    /\ op[c] = "query_prometheus"
    /\ \E o \in Outcomes :
          /\ Requested(c, o)
          /\ CASE o.kind = "ok"   -> Finish(c, Return(ParsedResponse(o))) /\ UNCHANGED delay
               [] o.kind = "http" -> GatewayOnHTTPError(c, o)
               [] o.kind = "url"  -> GatewayOnURLError(c, o)
    /\ UNCHANGED <<config, op, args, attempt, sent, duration, parsed, fmt, formatted, fetched, generated, alerts, summary>>

-----------------------------------------------------------------------------
(* The backoff sleep and the next iteration *)

\* NextAttempt with one counter that all calls share
NextAttemptShared(c) == [d \in Calls |-> attempt[d] + 1]

\* the loop variable after one more iteration; it is a local of the call
NextAttempt(c) == [attempt EXCEPT ![c] = @ + 1]

\* time.sleep(...) returns and the for statement takes its next value, or
\* the loop ends and the function with it
Sleep(c) ==
    /\ pc[c] = "sleep"
    /\ events' = [events EXCEPT ![c] = Append(@, SleepEvent(delay[c]))]
    /\ attempt' = NextAttempt(c)
    /\ IF InRange(attempt'[c], args[c].max_retries)
       THEN pc' = [pc EXCEPT ![c] = "try"] /\ UNCHANGED result
       ELSE Finish(c, ReturnNone)
    /\ UNCHANGED <<config, op, args, delay, sent, seen, duration, parsed, fmt, formatted, fetched, generated, alerts, summary>>

-----------------------------------------------------------------------------
(* query *)

\* RelativeWindow reaching forward from now
RelativeWindowAhead(now, duration_seconds) ==
    [start_ts |-> now, end_ts |-> now + duration_seconds]

\* start_ts and end_ts of a relative time range
RelativeWindow(now, duration_seconds) ==
    [start_ts |-> now - duration_seconds, end_ts |-> now]

\* a call of query, up to the loop of query_prometheus_direct
Query(c) ==
    /\ pc[c] = "entry"
    /\ op[c] = "query"
    /\ IF Truthy(args[c].start_time) /\ Truthy(args[c].end_time)
       THEN LET start_ts == ParseAbsoluteTime(args[c].start_time)
                end_ts   == ParseAbsoluteTime(args[c].end_time)
            IN  IF ~start_ts.ok
                THEN /\ Finish(c, Raise(start_ts.exc, start_ts.detail))
                     /\ UNCHANGED <<sent, attempt>>
                ELSE IF ~end_ts.ok
                THEN /\ Finish(c, Raise(end_ts.exc, end_ts.detail))
                     /\ UNCHANGED <<sent, attempt>>
                ELSE DirectBegin(c, args[c].datasource_name, args[c].query,
                                 start_ts.value, end_ts.value, args[c].step)
       ELSE LET now              == args[c].now
                duration_seconds == ParseDurationToSeconds(args[c].time_range)
                window           == RelativeWindow(now, duration_seconds.value)
            IN  IF ~duration_seconds.ok
                THEN /\ Finish(c, Raise(duration_seconds.exc, duration_seconds.detail))
                     /\ UNCHANGED <<sent, attempt>>
                ELSE DirectBegin(c, args[c].datasource_name, args[c].query,
                                 window.start_ts, window.end_ts, args[c].step)
    /\ UNCHANGED <<config, op, args, delay, events, seen, duration, parsed, fmt, formatted, fetched, generated, alerts, summary>>

-----------------------------------------------------------------------------
(* Two concurrent dispatches *)

DispatchOps == {"query_prometheus_direct", "query_prometheus_absolute", "query_prometheus"}

\* the values of max_retries: negative, zero and up to MaxRetries
RetryChoices == (-1)..MaxRetries

\* the arguments of a call, with the defaults of the signatures
Arguments(datasource_name, time_range, start_time, end_time, max_retries, now) ==
    [datasource_name |-> datasource_name, query |-> "up",
     time_range |-> time_range, start_time |-> start_time, end_time |-> end_time,
     start_timestamp |-> 1000, end_timestamp |-> 2000,
     from_timestamp |-> 1000000, to_timestamp |-> 2000000,
     interval |-> "", legend_format |-> "", step |-> 15,
     max_retries |-> max_retries, now |-> now]

OneHour == <<"1", "h">>

\* a call that has been made and has not run yet
Fresh ==
    /\ pc = [c \in Calls |-> "entry"]
    /\ attempt = [c \in Calls |-> 0]
    /\ delay = [c \in Calls |-> 0]
    /\ sent = [c \in Calls |-> NoRequest]
    /\ events = [c \in Calls |-> <<>>]
    /\ seen = [c \in Calls |-> <<>>]
    /\ result = [c \in Calls |-> Pending]

\* _parse_duration_to_seconds has not been called
NotParsed == [ok |-> FALSE, value |-> 0, exc |-> "pending", detail |-> NoDetail]

NoParse ==
    /\ duration = <<>>
    /\ parsed = NotParsed

\* no formatter has been called
NotFormatted == [done |-> FALSE, text |-> <<>>]

\* the string a formatter returned
Formatted(text) == [done |-> TRUE, text |-> text]

NoFormatCall ==
    [fn |-> "none", result |-> JNull, format_type |-> "table",
     max_series |-> 20, max_points |-> 10]

NoFormat ==
    /\ fmt = NoFormatCall
    /\ formatted = NotFormatted

\* a key a record does not have: dict.get returns None
Absent == [some |-> FALSE, v |-> ""]

\* build_config has not been called
NotGenerated ==
    [done |-> FALSE,
     config |-> [grafana_url |-> "", api_token |-> "", default_datasource |-> Absent,
                 datasources |-> <<>>]]

\* get_alert_summary has not been called
NotSummarised == [done |-> FALSE, counts |-> <<>>]

NoTools ==
    /\ fetched = <<>>
    /\ generated = NotGenerated
    /\ alerts = <<>>
    /\ summary = NotSummarised

Init ==
    /\ config = LoadedConfig
    /\ op \in [Calls -> DispatchOps]
    /\ \E n \in [Calls -> RetryChoices] :
          args = [c \in Calls |->
                    Arguments("Prometheus 1", OneHour, None, None, n[c], 0)]
    /\ Fresh
    /\ NoParse
    /\ NoFormat
    /\ NoTools

Next ==
    \E c \in Calls :
       \/ QueryPrometheusDirect(c)
       \/ QueryPrometheusAbsolute(c)
       \/ QueryPrometheus(c)
       \/ DirectAttempt(c)
       \/ AbsoluteAttempt(c)
       \/ GatewayAttempt(c)
       \/ Sleep(c)

Spec == Init /\ [][Next]_vars

-----------------------------------------------------------------------------
(* One call of query, query_prometheus or query_prometheus_direct *)

\* the arguments of a call slot that is not used
NoArguments == Arguments("Prometheus 1", OneHour, None, None, 0, 0)

\* the time_range strings: all up to MaxRangeLen characters, and two that
\* begin with "now"
RangeStrings ==
    StringsOver(Chars, MaxRangeLen) \cup {Now, Now \o <<"-", "1", "h">>}

\* the start_time and end_time strings
AbsoluteStrings == StringsOver({"1", "2", "x"}, MaxRangeLen) \cup {None}

DatasourceNames == {"Prometheus 1", "Loki", "missing"}

Clock == {1000, 1700000000}

\* the arguments a call of `o` is given
QueryArguments(o) ==
    CASE o = "query" ->
            {Arguments(n, r, None, None, m, t) :
                n \in DatasourceNames, r \in RangeStrings, m \in 1..2, t \in Clock}
            \cup
            {Arguments(n, OneHour, a, b, m, 1000) :
                n \in DatasourceNames, a \in AbsoluteStrings, b \in AbsoluteStrings,
                m \in 1..2}
      [] o = "query_prometheus" ->
            {Arguments(n, r, None, None, m, 1000) :
                n \in DatasourceNames, r \in RangeStrings, m \in 1..2}
      [] o = "query_prometheus_direct" ->
            {Arguments(n, OneHour, None, None, m, 1000) :
                n \in DatasourceNames, m \in 1..2}
      [] o = "query_prometheus_absolute" ->
            {Arguments(n, OneHour, None, None, m, 1000) :
                n \in DatasourceNames, m \in 1..2}

InitQuery ==
    /\ config = LoadedConfig
    /\ \E o \in DispatchOps \cup {"query"} :
          \E a \in QueryArguments(o) :
             /\ op = [c \in Calls |-> IF c = "c1" THEN o ELSE "none"]
             /\ args = [c \in Calls |-> IF c = "c1" THEN a ELSE NoArguments]
    /\ pc = [c \in Calls |-> IF c = "c1" THEN "entry" ELSE "idle"]
    /\ attempt = [c \in Calls |-> 0]
    /\ delay = [c \in Calls |-> 0]
    /\ sent = [c \in Calls |-> NoRequest]
    /\ events = [c \in Calls |-> <<>>]
    /\ seen = [c \in Calls |-> <<>>]
    /\ result = [c \in Calls |-> Pending]
    /\ NoParse
    /\ NoFormat
    /\ NoTools

NextQuery ==
    \E c \in Calls :
       \/ Query(c)
       \/ QueryPrometheus(c)
       \/ QueryPrometheusDirect(c)
       \/ QueryPrometheusAbsolute(c)
       \/ DirectAttempt(c)
       \/ AbsoluteAttempt(c)
       \/ GatewayAttempt(c)
       \/ Sleep(c)

SpecQuery == InitQuery /\ [][NextQuery]_vars

-----------------------------------------------------------------------------
(* _parse_duration_to_seconds on its own *)

InitParse ==
    /\ config = LoadedConfig
    /\ op = [c \in Calls |-> "none"]
    /\ args = [c \in Calls |-> NoArguments]
    /\ pc = [c \in Calls |-> "idle"]
    /\ attempt = [c \in Calls |-> 0]
    /\ delay = [c \in Calls |-> 0]
    /\ sent = [c \in Calls |-> NoRequest]
    /\ events = [c \in Calls |-> <<>>]
    /\ seen = [c \in Calls |-> <<>>]
    /\ result = [c \in Calls |-> Pending]
    /\ duration \in StringsOver(Chars, MaxLen)
    /\ parsed = NotParsed
    /\ NoFormat
    /\ NoTools

\* the call _parse_duration_to_seconds(duration)
ParseDuration ==
    /\ parsed = NotParsed
    /\ parsed' = ParseDurationToSeconds(duration)
    /\ UNCHANGED <<config, callVars, duration, fmt, formatted, fetched, generated, alerts, summary>>

NextParse == ParseDuration

SpecParse == InitParse /\ [][NextParse]_vars

-----------------------------------------------------------------------------
(* format_prometheus_result and format_series_data on their own *)

Pair(first, second) == JList(<<first, second>>)

\* the label sets of a native series: instance and job, job alone, none
Metrics ==
    {JDict(<<Entry(<<"i", "n", "s", "t", "a", "n", "c", "e">>, JStr(<<"h", "1">>)), Entry(<<"j", "o", "b">>, JStr(<<"a", "p", "i">>))>>),
     JDict(<<Entry(<<"j", "o", "b">>, JStr(<<"a", "p", "i">>))>>),
     JDict(<<>>)}

\* the [timestamp, value] lists of a native series
NativeValues ==
    {JList(<<Pair(JNum(1000), JStr(<<"1">>))>>),
     JList(<<Pair(JNum(1000), JStr(<<"1">>)), Pair(JNum(1015), JStr(<<"2">>))>>)}

NativeSeries ==
    {JDict(<<Entry(<<"m", "e", "t", "r", "i", "c">>, m), Entry(<<"v", "a", "l", "u", "e", "s">>, v)>>) :
        m \in Metrics, v \in NativeValues}

\* the columns of a frame: equal lengths, fewer values than times, fewer
\* times than values, and a time column alone
FrameColumns ==
    {JList(<<JList(<<JNum(1000), JNum(2000)>>), JList(<<JNum(1), JNum(2)>>)>>),
     JList(<<JList(<<JNum(1000), JNum(2000)>>), JList(<<JNum(1)>>)>>),
     JList(<<JList(<<JNum(1000)>>), JList(<<JNum(1), JNum(2)>>)>>),
     JList(<<JList(<<JNum(1000)>>)>>)}

\* frames with and without a schema name
Frames ==
    {JDict(<<Entry(<<"s", "c", "h", "e", "m", "a">>, JDict(<<Entry(<<"n", "a", "m", "e">>, JStr(<<"u", "p">>))>>)),
             Entry(<<"d", "a", "t", "a">>, JDict(<<Entry(<<"v", "a", "l", "u", "e", "s">>, c)>>))>>) : c \in FrameColumns}
    \cup
    {JDict(<<Entry(<<"d", "a", "t", "a">>, JDict(<<Entry(<<"v", "a", "l", "u", "e", "s">>, c)>>))>>) : c \in FrameColumns}

\* the [value, timestamp] lists of a series: none, two points, a point
\* without its timestamp
SeriesPoints ==
    {JList(<<>>),
     JList(<<Pair(JNum(1), JNum(1000)), Pair(JNum(2), JNum(2000))>>),
     JList(<<JList(<<JNum(1)>>)>>)}

\* series with and without a name
LegacySeries ==
    {JDict(<<Entry(<<"n", "a", "m", "e">>, JStr(<<"u", "p">>)), Entry(<<"p", "o", "i", "n", "t", "s">>, p)>>) : p \in SeriesPoints}
    \cup
    {JDict(<<Entry(<<"p", "o", "i", "n", "t", "s">>, p)>>) : p \in SeriesPoints}

\* the lists of at most n elements of a set
ListsOver(elements, n) ==
    {JList(items) : items \in UNION {[1..k -> elements] : k \in 0..n}}

\* the native envelope around a result list
NativeEnvelope(results) ==
    JDict(<<Entry(<<"s", "t", "a", "t", "u", "s">>, JStr(<<"s", "u", "c", "c", "e", "s", "s">>)),
            Entry(<<"d", "a", "t", "a">>, JDict(<<Entry(<<"r", "e", "s", "u", "l", "t", "T", "y", "p", "e">>, JStr(<<"m", "a", "t", "r", "i", "x">>)),
                                  Entry(<<"r", "e", "s", "u", "l", "t">>, results)>>))>>)

\* the gateway envelope around the data of refId A
GatewayEnvelope(key, list) ==
    JDict(<<Entry(<<"r", "e", "s", "u", "l", "t", "s">>, JDict(<<Entry(<<"A">>, JDict(<<Entry(key, list)>>))>>))>>)

\* payloads of the three shapes, with up to MaxSeries series
NativePayloads == {NativeEnvelope(r) : r \in ListsOver(NativeSeries, MaxSeries)}

FramesPayloads == {GatewayEnvelope(<<"f", "r", "a", "m", "e", "s">>, f) : f \in ListsOver(Frames, MaxSeries)}

SeriesPayloads == {GatewayEnvelope(<<"s", "e", "r", "i", "e", "s">>, s) : s \in ListsOver(LegacySeries, MaxSeries)}

\* payloads of no shape: None, {}, a dict of other keys, an error envelope,
\* a success envelope without data or without data.result, and results
\* without refId A or with neither frames nor series under it
OtherPayloads ==
    {JNull,
     JDict(<<>>),
     JDict(<<Entry(<<"m", "e", "s", "s", "a", "g", "e">>, JStr(<<"x">>))>>),
     JDict(<<Entry(<<"s", "t", "a", "t", "u", "s">>, JStr(<<"e", "r", "r", "o", "r">>))>>),
     JDict(<<Entry(<<"s", "t", "a", "t", "u", "s">>, JStr(<<"s", "u", "c", "c", "e", "s", "s">>))>>),
     JDict(<<Entry(<<"s", "t", "a", "t", "u", "s">>, JStr(<<"s", "u", "c", "c", "e", "s", "s">>)), Entry(<<"d", "a", "t", "a">>, JDict(<<>>))>>),
     JDict(<<Entry(<<"r", "e", "s", "u", "l", "t", "s">>, JDict(<<>>))>>),
     JDict(<<Entry(<<"r", "e", "s", "u", "l", "t", "s">>, JDict(<<Entry(<<"B">>, JDict(<<>>))>>))>>),
     JDict(<<Entry(<<"r", "e", "s", "u", "l", "t", "s">>, JDict(<<Entry(<<"A">>, JDict(<<>>))>>))>>),
     JDict(<<Entry(<<"r", "e", "s", "u", "l", "t", "s">>,
                   JDict(<<Entry(<<"A">>, JDict(<<Entry(<<"e", "r", "r", "o", "r">>, JStr(<<"x">>))>>))>>))>>)}

Payloads == NativePayloads \cup FramesPayloads \cup SeriesPayloads \cup OtherPayloads

FormatTypes == {"table", "simple", "json"}

\* the arguments of a formatter call, with the defaults of the signature
FormatArguments(fn, raw, format_type, max_series, max_points) ==
    [fn |-> fn, result |-> raw, format_type |-> format_type,
     max_series |-> max_series, max_points |-> max_points]

\* the calls made: format_prometheus_result on every payload, with
\* max_series and max_points at their defaults, below the sizes of the
\* payload and at zero, and format_series_data on every payload
FormatCalls ==
    {FormatArguments("format_prometheus_result", p, t, s, n) :
        p \in NativePayloads, t \in FormatTypes, s \in {0, 1, 20}, n \in {0, 1, 10}}
    \cup
    {FormatArguments("format_prometheus_result", p, t, s, 10) :
        p \in Payloads, t \in FormatTypes, s \in {1, 20}}
    \cup
    {FormatArguments("format_series_data", p, t, 20, 10) :
        p \in Payloads, t \in FormatTypes}

InitFormat ==
    /\ config = LoadedConfig
    /\ op = [c \in Calls |-> "none"]
    /\ args = [c \in Calls |-> NoArguments]
    /\ pc = [c \in Calls |-> "idle"]
    /\ attempt = [c \in Calls |-> 0]
    /\ delay = [c \in Calls |-> 0]
    /\ sent = [c \in Calls |-> NoRequest]
    /\ events = [c \in Calls |-> <<>>]
    /\ seen = [c \in Calls |-> <<>>]
    /\ result = [c \in Calls |-> Pending]
    /\ NoParse
    /\ fmt \in FormatCalls
    /\ formatted = NotFormatted
    /\ NoTools

\* the call format_prometheus_result(result, format_type, max_series, max_points)
FormatPrometheusResultCall ==
    /\ fmt.fn = "format_prometheus_result"
    /\ ~formatted.done
    /\ formatted' = Formatted(FormatPrometheusResult(fmt.result, fmt.format_type,
                                                     fmt.max_series, fmt.max_points))
    /\ UNCHANGED <<config, callVars, duration, parsed, fmt, fetched, generated, alerts, summary>>

\* the call format_series_data(result, format_type)
FormatSeriesDataCall ==
    /\ fmt.fn = "format_series_data"
    /\ ~formatted.done
    /\ formatted' = Formatted(FormatSeriesData(fmt.result, fmt.format_type))
    /\ UNCHANGED <<config, callVars, duration, parsed, fmt, fetched, generated, alerts, summary>>

NextFormat == FormatPrometheusResultCall \/ FormatSeriesDataCall

SpecFormat == InitFormat /\ [][NextFormat]_vars

-----------------------------------------------------------------------------
(* One helper object used for one operation after another *)

\* no call is running and none has been made
NoCall ==
    /\ op = [c \in Calls |-> "none"]
    /\ args = [c \in Calls |-> NoArguments]
    /\ pc = [c \in Calls |-> "idle"]
    /\ attempt = [c \in Calls |-> 0]
    /\ delay = [c \in Calls |-> 0]
    /\ sent = [c \in Calls |-> NoRequest]
    /\ events = [c \in Calls |-> <<>>]
    /\ seen = [c \in Calls |-> <<>>]
    /\ result = [c \in Calls |-> Pending]

InitSession ==
    /\ config = LoadedConfig
    /\ NoCall
    /\ NoParse
    /\ NoFormat
    /\ NoTools

\* the operation before, if any, has returned or raised
PreviousDone ==
    /\ pc["c1"] \in {"idle", "done"}
    /\ fmt.fn = "none" \/ formatted.done

\* the caller calls query or a dispatch operation with the default range, or
\* query with an absolute pair, the clock at 1000; the locals of the
\* operation before are gone
NewCall ==
    /\ PreviousDone
    /\ \E o \in DispatchOps \cup {"query"} :
          \E a \in {Arguments(n, OneHour, t, t, m, 1000) :
                       n \in DatasourceNames,
                       t \in IF o = "query" THEN {None, <<"1", "2">>} ELSE {None},
                       m \in 1..2} :
             /\ op' = [c \in Calls |-> IF c = "c1" THEN o ELSE "none"]
             /\ args' = [c \in Calls |-> IF c = "c1" THEN a ELSE NoArguments]
    /\ pc' = [c \in Calls |-> IF c = "c1" THEN "entry" ELSE "idle"]
    /\ attempt' = [c \in Calls |-> 0]
    /\ delay' = [c \in Calls |-> 0]
    /\ sent' = [c \in Calls |-> NoRequest]
    /\ events' = [c \in Calls |-> <<>>]
    /\ seen' = [c \in Calls |-> <<>>]
    /\ result' = [c \in Calls |-> Pending]
    /\ fmt' = NoFormatCall
    /\ formatted' = NotFormatted
    /\ UNCHANGED <<config, duration, parsed, fetched, generated, alerts, summary>>

\* the caller calls a formatter with the default limits on a payload of at
\* most one series
NewFormat ==
    /\ PreviousDone
    /\ op' = [c \in Calls |-> "none"]
    /\ args' = [c \in Calls |-> NoArguments]
    /\ pc' = [c \in Calls |-> "idle"]
    /\ attempt' = [c \in Calls |-> 0]
    /\ delay' = [c \in Calls |-> 0]
    /\ sent' = [c \in Calls |-> NoRequest]
    /\ events' = [c \in Calls |-> <<>>]
    /\ seen' = [c \in Calls |-> <<>>]
    /\ result' = [c \in Calls |-> Pending]
    /\ fmt' \in {FormatArguments(fn, p, t, 20, 10) :
                    fn \in {"format_prometheus_result", "format_series_data"},
                    p \in {NativeEnvelope(r) : r \in ListsOver(NativeSeries, 1)}
                            \cup {GatewayEnvelope(<<"f", "r", "a", "m", "e", "s">>, f) : f \in ListsOver(Frames, 1)}
                            \cup {GatewayEnvelope(<<"s", "e", "r", "i", "e", "s">>, l) : l \in ListsOver(LegacySeries, 1)}
                            \cup OtherPayloads,
                    t \in FormatTypes}
    /\ formatted' = NotFormatted
    /\ UNCHANGED <<config, duration, parsed, fetched, generated, alerts, summary>>

NextSession ==
    \/ NewCall
    \/ NewFormat
    \/ NextQuery
    \/ NextFormat

SpecSession == InitSession /\ [][NextSession]_vars

-----------------------------------------------------------------------------
(* generate_datasources.py: build_config *)

\* bool(x) of the value of ds.get(key) for a string field
HasText(x) == x.some /\ x.v # ""

\* the loop `for ds in datasources`: the datasources dict and
\* default_datasource_name after the records still to come
RECURSIVE BuildLoop(_, _, _)
BuildLoop(datasources, mapping, default_datasource_name) ==
    IF datasources = <<>>
    THEN [datasources |-> mapping, default_datasource_name |-> default_datasource_name]
    ELSE LET ds == Head(datasources)
             name == ds.name
             uid == ds.uid
             ds_id == ds.id
             is_default == ds.isDefault
             stored == HasText(name) /\ HasText(uid)
         IN  BuildLoop(Tail(datasources),
                       IF stored
                       THEN [n \in DOMAIN mapping \cup {name.v} |->
                                IF n = name.v
                                THEN [uid |-> uid.v, id |-> ds_id, is_default |-> is_default]
                                ELSE mapping[n]]
                       ELSE mapping,
                       IF stored /\ is_default THEN Some(name.v)
                       ELSE default_datasource_name)

\* build_config(grafana_url, api_token, datasources)
BuildConfig(grafana_url, api_token, datasources) ==
    LET loop == BuildLoop(datasources, <<>>, Absent)
    IN  [grafana_url |-> grafana_url, api_token |-> api_token,
         default_datasource |-> IF HasText(loop.default_datasource_name)
                                THEN loop.default_datasource_name
                                ELSE Absent,
         datasources |-> loop.datasources]

\* the records of /api/datasources: name missing, empty or one of two;
\* uid missing or one of two; id null or set; isDefault false or true
DatasourceRecords ==
    [name : {Absent, Some(""), Some("a"), Some("b")},
     uid : {Absent, Some("u1"), Some("u2")},
     id : {Nothing, Some(1)},
     isDefault : BOOLEAN]

\* build_config is given a list of at most MaxRecords records
InitBuild ==
    /\ config = LoadedConfig
    /\ NoCall
    /\ NoParse
    /\ NoFormat
    /\ fetched \in UNION {[1..k -> DatasourceRecords] : k \in 0..MaxRecords}
    /\ generated = NotGenerated
    /\ alerts = <<>>
    /\ summary = NotSummarised

\* the call build_config(grafana_url, api_token, datasources)
BuildConfigCall ==
    /\ ~generated.done
    /\ generated' = [done |-> TRUE,
                     config |-> BuildConfig("https://grafana.example", "token", fetched)]
    /\ UNCHANGED <<config, callVars, duration, parsed, fmt, formatted, fetched, alerts, summary>>

SpecBuild == InitBuild /\ [][BuildConfigCall]_vars

-----------------------------------------------------------------------------
(* alert_manager.py: get_alert_summary *)

\* the loop `for alert in alerts`, with state = alert.get("state", "unknown")
RECURSIVE CountLoop(_, _)
CountLoop(alert_list, counts) ==
    IF alert_list = <<>>
    THEN counts
    ELSE LET alert == Head(alert_list)
             state == IF alert.state.some THEN alert.state.v ELSE "unknown"
         IN  CountLoop(Tail(alert_list),
                       IF state \in DOMAIN counts
                       THEN [counts EXCEPT ![state] = @ + 1]
                       ELSE counts)

\* get_alert_summary(), list_alerts() having returned alert_list: the loop
\* run on summary = {"total": len(alerts), "alerting": 0, ...}
GetAlertSummary(alert_list) ==
    CountLoop(alert_list,
              [k \in {"total", "alerting", "ok", "paused", "pending", "no_data"} |->
                  IF k = "total" THEN Len(alert_list) ELSE 0])

\* the alerts of /api/alerts: the five states, two other state strings,
\* and an alert without a state
Alerts ==
    [state : {Some(s) : s \in {"alerting", "ok", "paused", "pending", "no_data",
                                "unknown", "total"}} \cup {Absent}]

\* list_alerts returns a list of at most MaxAlerts alerts
InitSummary ==
    /\ config = LoadedConfig
    /\ NoCall
    /\ NoParse
    /\ NoFormat
    /\ fetched = <<>>
    /\ generated = NotGenerated
    /\ alerts \in UNION {[1..k -> Alerts] : k \in 0..MaxAlerts}
    /\ summary = NotSummarised

\* the call get_alert_summary()
GetAlertSummaryCall ==
    /\ ~summary.done
    /\ summary' = [done |-> TRUE, counts |-> GetAlertSummary(alerts)]
    /\ UNCHANGED <<config, callVars, duration, parsed, fmt, formatted, fetched, generated, alerts>>

SpecSummary == InitSummary /\ [][GetAlertSummaryCall]_vars

-----------------------------------------------------------------------------
(* The dispatch operations under fair scheduling *)

\* every HTTP attempt and every sleep of a call returns
SpecFair == Spec /\ WF_vars(Next)

-----------------------------------------------------------------------------
(* Properties of the retry loop (checked under Spec) *)

Failed(o) == o.kind # "ok"

Last(s) == s[Len(s)]

IsPrefix(s, t) == Len(s) <= Len(t) /\ SubSeq(t, 1, Len(s)) = s

\* a request, then k times a sleep of 1, 2, ..., k seconds and a request
Alternating(k) ==
    [i \in 1..(2 * k + 1) |-> IF i % 2 = 1 THEN RequestEvent ELSE SleepEvent(i \div 2)]

\* the error the caller gets from failure `o`
ErrorFrom(o) ==
    IF o.kind = "http"
    THEN Raise("Exception", Detail("Query failed: HTTP", o.code, o.reason, o.body, <<>>))
    ELSE Raise("Exception", Detail("Connection failed", 0, o.reason, "", <<>>))

C2_AllAttemptsFail ==
    \A c \in Calls :
       (seen[c] # <<>> /\ \A i \in 1..Len(seen[c]) : Failed(seen[c][i]))
          => /\ Len(seen[c]) <= args[c].max_retries
             /\ Len(seen[c]) < args[c].max_retries
                   => /\ result[c] = Pending
                      /\ pc[c] \in {"sleep", "try"}
             /\ Len(seen[c]) = args[c].max_retries
                   => /\ pc[c] = "done"
                      /\ result[c] = ErrorFrom(Last(seen[c]))
                      /\ events[c] = Alternating(args[c].max_retries - 1)

C2_Witness ==
    \E c \in Calls :
       /\ args[c].max_retries = 3
       /\ Len(seen[c]) = 3
       /\ \A i \in 1..3 : Failed(seen[c][i])
       /\ seen[c][3] = NotFound
       /\ pc[c] = "done"

\* C3: every dispatch ends by returning the parsed response of a successful
\* request or by raising; it never returns None without a success.
C3_NeverReturnsNone ==
    \A c \in Calls :
       pc[c] = "done"
          => \/ result[c].kind = "raise"
             \/ /\ result[c].kind = "return"
                /\ seen[c] # <<>>
                /\ ~Failed(Last(seen[c]))
                /\ result[c].value = Last(seen[c]).body

\* C4: two dispatches of different operations with the same max_retries and
\* the same transport outcomes make the same requests and sleeps in the same
\* order and end the same way.
C4_SameSchedule ==
    \A c, d \in Calls :
       (args[c].max_retries = args[d].max_retries /\ seen[c] = seen[d]
           /\ pc[c] # "entry" /\ pc[d] # "entry")
          => /\ IsPrefix(events[c], events[d]) \/ IsPrefix(events[d], events[c])
             /\ (pc[c] = pc[d]) => events[c] = events[d]
             /\ (pc[c] = "done" /\ pc[d] = "done") => result[c] = result[d]

C4_Witness ==
    /\ op["c1"] = "query_prometheus_direct"
    /\ op["c2"] \in {"query_prometheus_absolute", "query_prometheus"}
    /\ args["c1"].max_retries = 3 /\ args["c2"].max_retries = 3
    /\ seen["c1"] = seen["c2"]
    /\ Len(seen["c1"]) = 3
    /\ pc["c1"] = "done" /\ pc["c2"] = "done"

SameFailureIndices(s, t) ==
    /\ Len(s) = Len(t)
    /\ \A i \in 1..Len(s) : Failed(s[i]) <=> Failed(t[i])

SleepsAfterAttempts(ev) ==
    \A i \in 1..Len(ev) :
       ev[i].type = "sleep" => i % 2 = 0 /\ ev[i].secs = 1 * (((i \div 2) - 1) + 1)

NumSleeps(ev) == Cardinality({i \in 1..Len(ev) : ev[i].type = "sleep"})

\* C7: of two interleaved dispatches each counts its own attempts: the
\* attempt number of a call is the number of sleeps that call has made, and
\* a finished call has made the requests and sleeps of its own outcomes:
\* it stopped at its own first success or at its own max_retries-th failure.
C7_OwnAttemptCounter ==
    \A c \in Calls :
       /\ pc[c] # "entry" => attempt[c] = NumSleeps(events[c])
       /\ (pc[c] = "done" /\ seen[c] # <<>>)
             => /\ events[c] = Alternating(Len(seen[c]) - 1)
                /\ Failed(Last(seen[c]))
                      => /\ Len(seen[c]) = args[c].max_retries
                         /\ result[c] = ErrorFrom(Last(seen[c]))
                /\ ~Failed(Last(seen[c])) => result[c] = Return(Last(seen[c]).body)

C7_Witness ==
    /\ pc["c1"] = "done" /\ pc["c2"] = "sleep"
    /\ args["c1"].max_retries = 3 /\ args["c2"].max_retries = 2
    /\ Len(seen["c1"]) = 3 /\ Failed(Last(seen["c1"]))
    /\ Len(seen["c2"]) = 1

-----------------------------------------------------------------------------
(* Properties of duration parsing (checked under SpecParse) *)

\* <n><unit>: one or more digits and a unit letter
WellFormedDuration(s) ==
    /\ Len(s) >= 2
    /\ s[Len(s)] \in {"s", "m", "h", "d", "w"}
    /\ \A i \in 1..(Len(s) - 1) : s[i] \in Digits

\* the seconds the claim gives each unit
SecondsPerUnit == [s |-> 1, m |-> 60, h |-> 3600, d |-> 86400, w |-> 604800]

\* the count <n> of a well-formed duration
Count(s) == DecimalValue(SubSeq(s, 1, Len(s) - 1))

\* C8: a well-formed duration <n><unit> parses to n times the seconds of the
\* unit (1, 60, 3600, 86400, 604800), and a string of digits with no unit
\* letter parses to that number of seconds.
C8_ParseDuration ==
    parsed # NotParsed
       => /\ WellFormedDuration(duration)
                => parsed = Returned(Count(duration) * SecondsPerUnit[Last(duration)])
          /\ IsDigit(duration) => parsed = Returned(DecimalValue(duration))

C8_Witness ==
    /\ parsed # NotParsed
    /\ duration = <<"1", "2", "w">>
    /\ parsed.ok

\* the three kinds of malformed duration the claim names
EmptyDuration(s) == s = <<>>

NonNumericPrefix(s) ==
    /\ Len(s) >= 1
    /\ s[Len(s)] \in {"s", "m", "h", "d", "w"}
    /\ \/ Len(s) = 1
       \/ \E i \in 1..(Len(s) - 1) : s[i] \in {"s", "m", "h", "d", "w", "x"}

UnknownUnit(s) == Len(s) >= 1 /\ s[Len(s)] = "x"

Malformed(s) == EmptyDuration(s) \/ NonNumericPrefix(s) \/ UnknownUnit(s)

\* C9: every malformed duration string (empty, non-numeric prefix, unknown
\* unit letter) fails with the one invalid-duration error, the ValueError of
\* the other malformed strings, and returns no number.
C9_MalformedDuration ==
    (parsed # NotParsed /\ Malformed(duration))
       => ~parsed.ok /\ parsed.exc = "ValueError"

-----------------------------------------------------------------------------
(* Properties of query and of the entry of a dispatch (checked under
   SpecQuery) *)

Relative(c) == ~(Truthy(args[c].start_time) /\ Truthy(args[c].end_time))

\* a timestamp that is neither digits nor a date and time
InvalidTimestamp(s) == Truthy(s) /\ \E i \in 1..Len(s) : s[i] = "x"

UnknownDatasource(c) == args[c].datasource_name \notin DOMAIN LoadedDatasources

\* the call was given a malformed duration, an invalid timestamp or the name
\* of no datasource, in an argument the operation reads
InvalidInput(c) ==
    \/ op[c] \in {"query", "query_prometheus", "query_prometheus_direct"}
          /\ UnknownDatasource(c)
    \/ op[c] = "query" /\ Relative(c) /\ Malformed(args[c].time_range)
    \/ op[c] = "query" /\ ~Relative(c)
          /\ (InvalidTimestamp(args[c].start_time) \/ InvalidTimestamp(args[c].end_time))
    \/ op[c] = "query_prometheus" /\ Malformed(args[c].time_range)

\* C6: in query, query_prometheus and query_prometheus_direct an invalid
\* duration, an invalid absolute timestamp or an unknown datasource name
\* raises before any HTTP request is issued: such a call makes no request
\* and no sleep, and ends by raising.
C6_InvalidInputRaisesFirst ==
    \A c \in Calls :
       (InvalidInput(c) /\ pc[c] # "entry")
          => /\ events[c] = <<>>
             /\ pc[c] = "done"
             /\ result[c].kind = "raise"

\* C10: the request query() builds for a relative time range has end == now
\* and start == now - parseDuration(time_range).
C10_RelativeWindow ==
    \A c \in Calls :
       (op[c] = "query" /\ Relative(c) /\ events[c] # <<>>)
          => /\ sent[c].method = "GET"
             /\ sent[c].end = args[c].now
             /\ ParseDurationToSeconds(args[c].time_range).ok
             /\ sent[c].start
                   = args[c].now - ParseDurationToSeconds(args[c].time_range).value
             /\ WellFormedDuration(args[c].time_range)
                   => sent[c].start
                         = args[c].now - Count(args[c].time_range)
                                           * SecondsPerUnit[Last(args[c].time_range)]

C10_Witness ==
    \E c \in Calls :
       /\ op[c] = "query"
       /\ args[c].time_range = <<"2", "h">>
       /\ args[c].now = 1700000000
       /\ events[c] # <<>>
       /\ sent[c].start = 1699992800

\* C11: every window query() builds from a relative duration the parser
\* accepts has start <= end.
C11_StartBeforeEnd ==
    \A c \in Calls :
       (op[c] = "query" /\ Relative(c) /\ sent[c].method = "GET")
          => sent[c].start <= sent[c].end

\* a string of decimal digits, at least one
AllDigits(s) == Len(s) > 0 /\ \A i \in 1..Len(s) : s[i] \in Digits

KnownDatasource(c) == args[c].datasource_name \in DOMAIN LoadedDatasources

\* the call ended by raising before it made a request
RaisedAtOnce(c) ==
    pc[c] = "done" /\ result[c].kind = "raise" /\ events[c] = <<>>

\* C12: digit-only start_time and end_time reach the direct request as
\* exactly their two integer values, and query() does not raise on them,
\* also when start > end.
C12_AbsolutePassedExactly ==
    \A c \in Calls :
       (/\ op[c] = "query"
        /\ AllDigits(args[c].start_time) /\ AllDigits(args[c].end_time)
        /\ KnownDatasource(c)
        /\ pc[c] # "entry")
          => /\ sent[c].method = "GET"
             /\ sent[c].start = DecimalValue(args[c].start_time)
             /\ sent[c].end = DecimalValue(args[c].end_time)
             /\ ~RaisedAtOnce(c)

C12_Witness ==
    \E c \in Calls :
       /\ op[c] = "query"
       /\ args[c].start_time = <<"2">>
       /\ args[c].end_time = <<"1">>
       /\ events[c] # <<>>
       /\ sent[c].start = 2
       /\ sent[c].end = 1

\* the outcome of resolving the two absolute bounds
AbsoluteOutcome(c) ==
    IF AllDigits(args[c].start_time) /\ AllDigits(args[c].end_time)
    THEN /\ sent[c].method = "GET"
         /\ sent[c].start = DecimalValue(args[c].start_time)
         /\ sent[c].end = DecimalValue(args[c].end_time)
    ELSE /\ RaisedAtOnce(c)
         /\ result[c].exc = "ValueError"
         /\ result[c].detail.msg = "Cannot parse time string"

\* the outcome of resolving time_range against now, whatever the bounds are
RelativeOutcome(c) ==
    LET seconds == ParseDurationToSeconds(args[c].time_range)
    IN  IF seconds.ok
        THEN /\ sent[c].method = "GET"
             /\ sent[c].start = args[c].now - seconds.value
             /\ sent[c].end = args[c].now
             /\ ~RaisedAtOnce(c)
        ELSE /\ RaisedAtOnce(c)
             /\ result[c].exc = seconds.exc
             /\ result[c].detail = seconds.detail

\* a bound that was passed to the call
Given(x) == x # None

\* a bound that was passed to the call and is not the empty string
NonEmpty(x) == x # None /\ Len(x) > 0

C14_NowPassedThrough ==
    \A c \in Calls :
       (/\ op[c] = "query_prometheus"
        /\ StartsWith(args[c].time_range, Now)
        /\ sent[c].method = "POST")
          => sent[c].from = args[c].time_range

\* C15: the start and end of every request query() makes are integers, and a
\* time_range that begins with "now" makes no direct request at all.
C15_DirectGetsResolvedWindow ==
    \A c \in Calls :
       /\ (op[c] = "query" /\ sent[c].method = "GET")
             => sent[c].start \in Int /\ sent[c].end \in Int
       /\ (op[c] = "query" /\ Relative(c) /\ StartsWith(args[c].time_range, Now))
             => /\ sent[c].method = "none"
                /\ events[c] = <<>>

C15_Witness ==
    \E c \in Calls :
       /\ op[c] = "query"
       /\ args[c].time_range = Now \o <<"-", "1", "h">>
       /\ RaisedAtOnce(c)
       /\ result[c].exc = "ValueError"

\* C16: an unknown datasource name fails, on the direct path as on the
\* gateway paths, with the error whose message lists the available names.
C16_NotFoundListsNames ==
    \A c \in Calls :
       (/\ ~KnownDatasource(c)
        /\ pc[c] = "done"
        /\ result[c].kind = "raise"
        /\ result[c].exc = "KeyError")
          => /\ result[c].detail.msg = "Datasource not found. Available datasources"
             /\ result[c].detail.text = <<"Prometheus 1", "Loki">>

\* C17: the datasource object of every gateway payload carries the configured
\* uid, and an id exactly when the configured datasource has one.
C17_DatasourceObject ==
    \A c \in Calls :
       sent[c].method = "POST"
          => LET datasource == sent[c].queries[1].datasource
                 configured == LoadedDatasources[args[c].datasource_name]
             IN  /\ datasource.uid = configured.uid
                 /\ ("id" \in DOMAIN datasource) <=> configured.id.some
                 /\ configured.id.some => datasource.id = configured.id.v

C17_Witness ==
    \E c \in Calls :
       /\ op[c] \in {"query_prometheus", "query_prometheus_absolute"}
       /\ args[c].datasource_name = "Loki"
       /\ sent[c].method = "POST"
       /\ sent[c].queries[1].datasource.uid = "loki-uid"
       /\ "id" \notin DOMAIN sent[c].queries[1].datasource

-----------------------------------------------------------------------------
(* Properties of the formatters (checked under SpecFormat) *)

EndsWith(s, suffix) ==
    Len(s) >= Len(suffix) /\ SubSeq(s, Len(s) - Len(suffix) + 1, Len(s)) = suffix

\* the payload is a native success envelope with a data.result
NativeShape(p) ==
    /\ Has(p, <<"s", "t", "a", "t", "u", "s">>) /\ Item(p, <<"s", "t", "a", "t", "u", "s">>) = JStr(<<"s", "u", "c", "c", "e", "s", "s">>)
    /\ Has(p, <<"d", "a", "t", "a">>) /\ Has(Item(p, <<"d", "a", "t", "a">>), <<"r", "e", "s", "u", "l", "t">>)

\* the payload has `key` ("frames" or "series") under results.A
GatewayShape(p, key) ==
    /\ Has(p, <<"r", "e", "s", "u", "l", "t", "s">>) /\ Has(Item(p, <<"r", "e", "s", "u", "l", "t", "s">>), <<"A">>)
    /\ Has(Item(Item(p, <<"r", "e", "s", "u", "l", "t", "s">>), <<"A">>), key)

NoShape(p) ==
    ~NativeShape(p) /\ ~GatewayShape(p, <<"f", "r", "a", "m", "e", "s">>) /\ ~GatewayShape(p, <<"s", "e", "r", "i", "e", "s">>)

\* the text reports a failure and ends with the serialized payload
MalformedResponse(text, p) ==
    /\ StartsWith(text, <<"E", "r", "r", "o", "r", " ", "f", "o", "r", "m", "a", "t", "t", "i", "n", "g", " ", "d", "a", "t", "a", ":", " ">>)
    /\ EndsWith(text, Dumps(p, 0))

\* C18: a payload of none of the three recognized shapes yields a
\* malformed-response failure that retains the raw payload, never a
\* successful result.
C18_NoShapeIsMalformed ==
    (formatted.done /\ NoShape(fmt.result))
       => MalformedResponse(formatted.text, fmt.result)

\* the payload has a recognized shape and no series in it
ZeroSeries(p) ==
    \/ NativeShape(p) /\ Item(Item(p, <<"d", "a", "t", "a">>), <<"r", "e", "s", "u", "l", "t">>) = JList(<<>>)
    \/ \E key \in {<<"f", "r", "a", "m", "e", "s">>, <<"s", "e", "r", "i", "e", "s">>} :
          GatewayShape(p, key)
             /\ Item(Item(Item(p, <<"r", "e", "s", "u", "l", "t", "s">>), <<"A">>), key) = JList(<<>>)

\* C19: a payload of a recognized shape with zero series yields the empty
\* result (in json mode possibly its own serialization), and in table and
\* simple mode no payload of no recognized shape yields the empty result.
C19_EmptyDistinctFromMalformed ==
    /\ (formatted.done /\ ZeroSeries(fmt.result))
          => \/ formatted.text = NoDataPointsText
             \/ fmt.format_type = "json" /\ formatted.text = Dumps(fmt.result, 0)
    /\ (formatted.done /\ NoShape(fmt.result) /\ fmt.format_type \in {"table", "simple"})
          => formatted.text # NoDataPointsText

\* the frames of a frames payload
FramesOf(p) == Item(Item(Item(p, <<"r", "e", "s", "u", "l", "t", "s">>), <<"A">>), <<"f", "r", "a", "m", "e", "s">>).items

\* the time and value columns of a frame, when it has both
Columns(frame) == Get(Get(frame, <<"d", "a", "t", "a">>, JDict(<<>>)), <<"v", "a", "l", "u", "e", "s">>, JList(<<>>)).items

\* some frame has a time column and a value column of different lengths
UnequalColumns(p) ==
    \E f \in 1..Len(FramesOf(p)) :
       LET columns == Columns(FramesOf(p)[f])
       IN  Len(columns) >= 2 /\ Len(columns[1].items) # Len(columns[2].items)

\* the points of a list of frames, each frame paired up to its shorter column
RECURSIVE PairedPoints(_)
PairedPoints(frames) ==
    IF Len(frames) = 0 THEN 0
    ELSE LET columns == Columns(frames[1])
             here    == IF Len(columns) < 2 THEN 0
                        ELSE IF Len(columns[1].items) < Len(columns[2].items)
                        THEN Len(columns[1].items)
                        ELSE Len(columns[2].items)
         IN  here + PairedPoints(Tail(frames))

\* the number of lines of a text
NumLines(text) == 1 + Cardinality({i \in 1..Len(text) : text[i] = "\n"})

\* C20: a frame whose time and value columns differ in length is paired up
\* to the shorter length: the outcome is no error, and the table has a row
\* for each paired point.
C20_UnequalColumnsTruncated ==
    (/\ formatted.done
     /\ GatewayShape(fmt.result, <<"f", "r", "a", "m", "e", "s">>)
     /\ UnequalColumns(fmt.result)
     /\ fmt.format_type \in {"table", "simple"})
       => /\ ~StartsWith(formatted.text, <<"E", "r", "r", "o", "r", " ", "f", "o", "r", "m", "a", "t", "t", "i", "n", "g", " ", "d", "a", "t", "a", ":", " ">>)
          /\ fmt.format_type = "table"
                => NumLines(formatted.text) = 2 + PairedPoints(FramesOf(fmt.result))

\* the result list of a native envelope
NativeResults(p) == Item(Item(p, <<"d", "a", "t", "a">>), <<"r", "e", "s", "u", "l", "t">>).items

\* the list under results.A.<key> of a gateway payload
GatewayList(p, key) == Item(Item(Item(p, <<"r", "e", "s", "u", "l", "t", "s">>), <<"A">>), key).items

\* the text holds `part` somewhere
Contains(text, part) ==
    \E i \in 0..(Len(text) - Len(part)) : SubSeq(text, i + 1, i + Len(part)) = part

\* the name the claim gives a native series: instance, else job, else the
\* placeholder
LabelName(metric) ==
    IF Has(metric, <<"i", "n", "s", "t", "a", "n", "c", "e">>) THEN Item(metric, <<"i", "n", "s", "t", "a", "n", "c", "e">>).s
    ELSE IF Has(metric, <<"j", "o", "b">>) THEN Item(metric, <<"j", "o", "b">>).s
    ELSE <<"S", "e", "r", "i", "e", "s">>

\* C21: a native series is shown under its instance label, else its job
\* label, else the placeholder, in simple mode and in table mode alike.
C21_NativeSeriesName ==
    (/\ formatted.done
     /\ fmt.fn = "format_prometheus_result"
     /\ NativeShape(fmt.result)
     /\ Len(NativeResults(fmt.result)) = 1
     /\ fmt.max_series >= 1
     /\ fmt.format_type \in {"table", "simple"})
       => LET name == LabelName(Item(NativeResults(fmt.result)[1], <<"m", "e", "t", "r", "i", "c">>))
          IN  IF fmt.format_type = "simple"
              THEN StartsWith(formatted.text, name \o <<":", " ">>)
              ELSE Contains(formatted.text, <<" ", "|", " ">> \o name \o <<" ", "|", " ">>)

\* the series a payload of a recognized shape holds
SeriesOf(p) ==
    IF NativeShape(p) THEN NativeResults(p)
    ELSE IF GatewayShape(p, <<"f", "r", "a", "m", "e", "s">>) THEN GatewayList(p, <<"f", "r", "a", "m", "e", "s">>)
    ELSE GatewayList(p, <<"s", "e", "r", "i", "e", "s">>)

\* C22: with N series and max_series M, N > M >= 0, simple mode emits M
\* series lines and then the one line "... and (N - M) more series", for
\* native, frames and series payloads.
C22_SimpleTruncation ==
    (/\ formatted.done
     /\ fmt.fn = "format_prometheus_result"
     /\ fmt.format_type = "simple"
     /\ ~NoShape(fmt.result)
     /\ fmt.max_series >= 0
     /\ Len(SeriesOf(fmt.result)) > fmt.max_series)
       => /\ NumLines(formatted.text) = fmt.max_series + 1
          /\ EndsWith(formatted.text,
                      <<".", ".", ".", " ", "a", "n", "d", " ">>
                         \o PyStr(Len(SeriesOf(fmt.result)) - fmt.max_series)
                         \o <<" ", "m", "o", "r", "e", " ", "s", "e", "r", "i", "e", "s">>)

\* the rows of a list of native series when each shows its last P points
RECURSIVE LastPoints(_, _)
LastPoints(series_list, P) ==
    IF Len(series_list) = 0 THEN 0
    ELSE LET n == Len(Item(series_list[1], <<"v", "a", "l", "u", "e", "s">>).items)
         IN  (IF P < n THEN P ELSE n) + LastPoints(Tail(series_list), P)

\* C23: in table mode a series of n points shown with max_points P >= 0 has
\* min(P, n) rows.
C23_TableLastPoints ==
    (/\ formatted.done
     /\ fmt.fn = "format_prometheus_result"
     /\ fmt.format_type = "table"
     /\ NativeShape(fmt.result)
     /\ NativeResults(fmt.result) # <<>>
     /\ Len(NativeResults(fmt.result)) <= fmt.max_series
     /\ fmt.max_points >= 0)
       => NumLines(formatted.text)
             = 2 + LastPoints(NativeResults(fmt.result), fmt.max_points)

\* C24: in json mode every non-empty raw response is returned as its own
\* JSON serialization, whatever its shape, status and number of series.
C24_JsonIsRawResponse ==
    (formatted.done /\ fmt.format_type = "json" /\ ~Falsy(fmt.result))
       => formatted.text = Dumps(fmt.result, 0)

\* a name as the claim shows it in a column of `width` characters
ShownName(name, width) ==
    IF Len(name) > width THEN SubSeq(name, 1, width) \o <<".", ".", ".">> ELSE name

\* every frame or series of the payload carries the name `name`
AllNamed(p, name) ==
    \/ /\ GatewayShape(p, <<"f", "r", "a", "m", "e", "s">>)
       /\ \A f \in 1..Len(GatewayList(p, <<"f", "r", "a", "m", "e", "s">>)) :
             LET frame == GatewayList(p, <<"f", "r", "a", "m", "e", "s">>)[f]
             IN  Has(frame, <<"s", "c", "h", "e", "m", "a">>)
                    /\ Get(Item(frame, <<"s", "c", "h", "e", "m", "a">>), <<"n", "a", "m", "e">>, JNull) = JStr(name)
    \/ /\ GatewayShape(p, <<"s", "e", "r", "i", "e", "s">>)
       /\ \A s \in 1..Len(GatewayList(p, <<"s", "e", "r", "i", "e", "s">>)) :
             Get(GatewayList(p, <<"s", "e", "r", "i", "e", "s">>)[s], <<"n", "a", "m", "e">>, JNull) = JStr(name)

\* C25: in table mode a name no longer than the column width is shown
\* unchanged with no ellipsis, and a longer one cut to the width with an
\* ellipsis, for frames and series payloads as for native ones.
C25_TableNameEllipsis ==
    (/\ formatted.done
     /\ fmt.format_type = "table"
     /\ AllNamed(fmt.result, <<"u", "p">>)
     /\ ~StartsWith(formatted.text, <<"E", "r", "r", "o", "r", " ", "f", "o", "r", "m", "a", "t", "t", "i", "n", "g", " ", "d", "a", "t", "a", ":", " ">>)
     /\ NumLines(formatted.text) > 2)
       => Contains(formatted.text, <<" ", "|", " ">> \o ShownName(<<"u", "p">>, 40) \o <<" ", "|", " ">>)

-----------------------------------------------------------------------------
(* Properties of the object and of query (SpecSession, SpecQuery, SpecFair) *)

\* C26: no query, dispatch or format operation, in any sequence and whether
\* it returns or raises, changes the datasource mapping, the base URL or the
\* token: they stay as loaded at construction.
C26_ConfigUnchanged == config = LoadedConfig

C26_Witness ==
    /\ op["c1"] = "query_prometheus_absolute"
    /\ args["c1"].datasource_name = "Loki"
    /\ pc["c1"] = "done"
    /\ result["c1"].kind = "raise"
    /\ config.datasources = LoadedDatasources

\* C27: every request of query(), for relative and for absolute time
\* inputs, is the GET on the datasource proxy path; none is a POST to the
\* gateway's query endpoint.
C27_QueryIsDirect ==
    \A c \in Calls :
       (op[c] = "query" /\ sent[c].method # "none")
          => /\ sent[c].method = "GET"
             /\ sent[c].path = "/api/datasources/proxy/{id}/api/v1/query_range"

C27_Witness ==
    \E c \in Calls :
       /\ op[c] = "query"
       /\ ~Relative(c)
       /\ events[c] # <<>>
       /\ sent[c].method = "GET"

\* the requests / the sleeps among the events of a call
Requests(c) == {i \in 1..Len(events[c]) : events[c][i] = RequestEvent}

Sleeps(c) == {i \in 1..Len(events[c]) : events[c][i] # RequestEvent}

RECURSIVE SleptSeconds(_)
SleptSeconds(es) ==
    IF Len(es) = 0 THEN 0
    ELSE (IF Head(es) = RequestEvent THEN 0 ELSE Head(es).secs) + SleptSeconds(Tail(es))

Max(a, b) == IF a > b THEN a ELSE b

-----------------------------------------------------------------------------
(* Properties of build_config and get_alert_summary *)

\* C29: for every list of datasource records given to build_config, with
\* missing names or uids and with repeated names, the default_datasource of
\* the result is null or a key of the resulting datasources mapping whose
\* entry has is_default true
C29_DefaultIsDefaultEntry ==
    generated.done
        => \/ ~generated.config.default_datasource.some
           \/ /\ generated.config.default_datasource.v \in DOMAIN generated.config.datasources
              /\ generated.config.datasources[generated.config.default_datasource.v].is_default

\* C30: for every list of alerts, whatever their state strings,
\* get_alert_summary returns total equal to the number of alerts, and the
\* counts of alerting, ok, paused, pending and no_data sum to at most total
C30_TotalIsNumberOfAlerts ==
    summary.done
        => /\ summary.counts["total"] = Len(alerts)
           /\ summary.counts["alerting"] + summary.counts["ok"] + summary.counts["paused"]
                 + summary.counts["pending"] + summary.counts["no_data"]
                 <= summary.counts["total"]

====
